---- MODULE Spec2Model ----
(***************************************************************************)
(* Model of the online incremental forecasting engine of                   *)
(* src/lib/online_forecasting.py: OnlineLinearRegression and               *)
(* OnlineForecastingService (train_incremental_model, forecast_prices,     *)
(* simple_trend_forecast, process_and_forecast).                           *)
(*                                                                         *)
(* Numbers.  Python floats are represented in fixed point:                 *)
(*   - a price is an integer number of price units (10000 = 100.00);       *)
(*   - a ratio (feature, target, weight, bias, prediction) is an integer   *)
(*     number of 1/RatioUnit, so 1.0 is RatioUnit;                         *)
(*   - a standardized feature is an integer number of 1/ZUnit;             *)
(*   - a per-minute trend factor is an integer number of 1/PpmUnit.        *)
(* Division rounds down.  A non-finite float (inf) read from the CSV is    *)
(* the value PosInf; NaN prices are dropped by read_data_from_minio and    *)
(* never reach the engine.                                                 *)
(***************************************************************************)
EXTENDS Integers, Sequences, FiniteSets, TLC

VARIABLES
    models,         \* self.models: coin_id -> OnlineLinearRegression state
    scalers,        \* self.scalers: coin_id -> StandardScaler state
    price_history,  \* self.price_history: coin_id -> deque(maxlen=100)
    migrated,       \* hasattr(self, '_linear_models_migrated')
    last,           \* what the last call of the public API did and returned
    calls,          \* number of calls of the public API made so far
    loop,           \* run_continuous_forecasting: position in the while / for loops
    threads,        \* passes of distinct coins run side by side: their positions
    regressor,      \* an OnlineLinearRegression object of its own, and its last call
    prepared,       \* the last direct call of prepare_features: frame and result
    csv             \* the day's forecast CSV in the object store, and the clock

vars == <<models, scalers, price_history, migrated, last, calls, loop, threads,
          regressor, prepared, csv>>

-----------------------------------------------------------------------------
(* Fixed-point units *)
RatioUnit == 100 * 100
ZUnit == 10 * 10
PpmUnit == 1000 * 1000
PosInf == 0 - 1

(* Program constants *)
sequence_length == 20
forecast_horizon == 5
price_history_maxlen == 100
stale_after == 300
min_rows_60min == 10
window_minutes == 60

(* Bounds of the model *)
MaxCalls == 2
MaxPasses == 2
MaxWarm == 2
MaxFits == 2
MaxSaves == 4
MaxTicks == 4

Coins == {"bitcoin", "ethereum"}

-----------------------------------------------------------------------------
(* numpy / Python helpers *)

Abs(x) == IF x < 0 THEN 0 - x ELSE x

Min2(a, b) == IF a < b THEN a ELSE b

Max2(a, b) == IF a > b THEN a ELSE b

RECURSIVE Pow(_, _)
Pow(b, e) == IF e = 0 THEN 1 ELSE b * Pow(b, e - 1)

RECURSIVE SumSeq(_)
SumSeq(s) == IF s = <<>> THEN 0 ELSE Head(s) + SumSeq(Tail(s))

\* floor(a * b / d) for d > 0, computed without the intermediate a * b
MulDiv(a, b, d) == b * (a \div d) + (b * (a % d)) \div d

\* the sequence with the elements of the function f on 1..n, element by element
AsSeq(f) == f \o <<>>

\* s[-n:]
LastN(s, n) == IF Len(s) <= n THEN s ELSE SubSeq(s, Len(s) - n + 1, Len(s))

\* the mutant of np_clip: a clip that lets every value through
np_clip_noop(x, lo, hi) == x

\* np.clip(x, lo, hi) = minimum(maximum(x, lo), hi)
np_clip(x, lo, hi) == Min2(Max2(x, lo), hi)

\* np.diff(s)
np_diff(s) == AsSeq([i \in 1..(Len(s) - 1) |-> s[i + 1] - s[i]])

\* np.mean(s), s not empty
np_mean(s) == SumSeq(s) \div Len(s)

RECURSIVE IsqrtIter(_, _, _)
IsqrtIter(n, lo, hi) ==
    IF lo >= hi THEN lo
    ELSE LET mid == (lo + hi + 1) \div 2
         IN  IF mid * mid <= n THEN IsqrtIter(n, mid, hi)
             ELSE IsqrtIter(n, lo, mid - 1)

\* floor of the square root, n < 2^30
Isqrt(n) == IsqrtIter(n, 0, Min2(n, 32767))

\* np.std(s): population standard deviation
np_std(s) ==
    LET m == np_mean(s)
    IN  Isqrt(SumSeq(AsSeq([i \in 1..Len(s) |-> (s[i] - m) * (s[i] - m)])) \div Len(s))

IsFinite(p) == p # PosInf

-----------------------------------------------------------------------------
(* OnlineForecastingService.simple_trend_forecast *)

\* current_price * 0.93 and current_price * 1.07
lower_bound(current_price) == (current_price * 93) \div 100

upper_bound(current_price) == (current_price * 107) \div 100

\* the mutant of ForecastPoint: 'minute': i instead of i + 1
ForecastPoint_zero_based(i, p) == [minute |-> i - 1, forecast_price |-> p]

\* one entry of the returned list, i the 1-based step
ForecastPoint(i, p) == [minute |-> i, forecast_price |-> p]

\* the branch len(recent_prices) < 3: five points at the current price
flat_forecast(current_price) ==
    [i \in 1..forecast_horizon |-> ForecastPoint(i, current_price)]

\* the mutant of trend_avg_change: the average change without its clip
trend_avg_change_raw(current_price, recent_prices) ==
    IF Len(recent_prices) >= 10
    THEN np_mean(np_diff(LastN(recent_prices, 10)))
    ELSE np_mean(np_diff(recent_prices))

\* avg_change after the clip to 0.5% of the current price
trend_avg_change(current_price, recent_prices) ==
    LET recent_changes == IF Len(recent_prices) >= 10
                          THEN np_diff(LastN(recent_prices, 10))
                          ELSE np_diff(recent_prices)
        max_change == (current_price * 5) \div 1000
    IN  np_clip(np_mean(recent_changes), 0 - max_change, max_change)

\* the mutant of trend_prices: dampening = 0.7 ** (i + 1)
trend_prices_k(current_price, avg_change) ==
    LET p[k \in 0..forecast_horizon] ==
            IF k = 0 THEN current_price
            ELSE LET change == (avg_change * Pow(7, k)) \div Pow(10, k)
                 IN  np_clip(p[k - 1] + change,
                             lower_bound(current_price),
                             upper_bound(current_price))
    IN  [k \in 1..forecast_horizon |-> ForecastPoint(k, p[k])]

\* the loop of the trend branch: step i (0-based) adds avg_change * 0.7^i
trend_prices(current_price, avg_change) ==
    LET p[k \in 0..forecast_horizon] ==
            IF k = 0 THEN current_price
            ELSE LET i == k - 1
                     change == (avg_change * Pow(7, i)) \div Pow(10, i)
                 IN  np_clip(p[i] + change,
                             lower_bound(current_price),
                             upper_bound(current_price))
    IN  [k \in 1..forecast_horizon |-> ForecastPoint(k, p[k])]

\* the mutant of simple_trend_forecast: flat only below 2 prices
simple_trend_forecast_short(current_price, recent_prices) ==
    IF Len(recent_prices) < 2
    THEN flat_forecast(current_price)
    ELSE trend_prices(current_price,
                      trend_avg_change(current_price, recent_prices))

simple_trend_forecast(current_price, recent_prices) ==
    IF Len(recent_prices) < 3
    THEN flat_forecast(current_price)
    ELSE trend_prices(current_price,
                      trend_avg_change(current_price, recent_prices))

\* which branch of simple_trend_forecast answers
trend_path(recent_prices) == IF Len(recent_prices) < 3 THEN "flat" ELSE "trend"

-----------------------------------------------------------------------------
(* sklearn.preprocessing.StandardScaler, as used by the service *)

\* StandardScaler(): no statistics yet
NewScaler == [fitted |-> FALSE, n_samples_seen |-> 0, mean |-> <<>>, var |-> <<>>]

Column(X, j) == AsSeq([r \in 1..Len(X) |-> X[r][j]])

\* sum of squared deviations of s from m
SumSqDev(s, m) == SumSeq(AsSeq([i \in 1..Len(s) |-> (s[i] - m) * (s[i] - m)]))

RowFinite(row) == \A j \in 1..Len(row) : IsFinite(row[j])

MatrixFinite(X) == \A r \in 1..Len(X) : RowFinite(X[r])

\* the input validation of fit / partial_fit / transform: inf is refused
\* with a ValueError, and so is a row of another width than the fitted one
scaler_accepts(sc, X) ==
    /\ MatrixFinite(X)
    /\ sc.fitted => \A r \in 1..Len(X) : Len(X[r]) = Len(sc.mean)

\* partial_fit(X): the first call computes mean and variance of the batch,
\* a later call merges the batch into the running mean and variance
scaler_partial_fit(sc, X) ==
    LET new_n == Len(X)
        width == Len(X[1])
        N == sc.n_samples_seen + new_n
        new_sum(j) == SumSeq(Column(X, j))
        new_mean(j) == new_sum(j) \div new_n
        new_unnorm(j) == SumSqDev(Column(X, j), new_mean(j))
        a(j) == sc.mean[j] * new_n - new_sum(j)
    IN  IF ~sc.fitted
        THEN [fitted |-> TRUE, n_samples_seen |-> new_n,
              mean |-> AsSeq([j \in 1..width |-> new_mean(j)]),
              var |-> AsSeq([j \in 1..width |-> new_unnorm(j) \div new_n])]
        ELSE [fitted |-> TRUE, n_samples_seen |-> N,
              mean |-> AsSeq([j \in 1..width |->
                          (sc.mean[j] * sc.n_samples_seen + new_sum(j)) \div N]),
              var |-> AsSeq([j \in 1..width |->
                          (sc.var[j] * sc.n_samples_seen + new_unnorm(j)
                           + (sc.n_samples_seen * a(j) * a(j)) \div (new_n * N))
                          \div N])]

\* fit(X): forget the statistics, then partial_fit
scaler_fit(sc, X) == scaler_partial_fit(NewScaler, X)

\* scale_ = sqrt(var_), a zero replaced by 1.0
scaler_scale(sc, j) == IF sc.var[j] = 0 THEN RatioUnit ELSE Isqrt(sc.var[j])

\* transform(X) raises NotFittedError before fit, ValueError on bad input
scaler_transform_raises(sc, X) == ~sc.fitted \/ ~scaler_accepts(sc, X)

\* transform(X) = (X - mean_) / scale_
scaler_transform(sc, X) ==
    AsSeq([r \in 1..Len(X) |->
        AsSeq([j \in 1..Len(X[r]) |->
            ((X[r][j] - sc.mean[j]) * ZUnit) \div scaler_scale(sc, j)])])

-----------------------------------------------------------------------------
(* OnlineLinearRegression *)

\* __init__: weights is None, bias 0.0, no samples
NewRegression == [has_weights |-> FALSE, weights |-> <<>>, bias |-> 0,
                  n_features |-> 0, n_samples |-> 0]

\* x @ w for one row x
Dot(x, w) == SumSeq(AsSeq([j \in 1..Len(x) |-> MulDiv(x[j], w[j], ZUnit)]))

\* the vectors the solve of (sum_xx + lambda I) w = sum_xy may return: the
\* linear solve is not computed; its result is any vector of this family
\* (all weight on one window entry)
WeightValues == {0, 4000, 0 - 4000}

SolveOutcomes(n_features) ==
    {[j \in 1..n_features |-> IF j = 1 THEN a ELSE 0] : a \in WeightValues}

\* partial_fit(X, y) with w the solution of the normal equation:
\* bias is the mean residual of this batch
regression_partial_fit(reg, X, y, w) ==
    [has_weights |-> TRUE,
     weights |-> w,
     bias |-> np_mean(AsSeq([r \in 1..Len(X) |-> y[r] - Dot(X[r], w)])),
     n_features |-> IF reg.has_weights THEN reg.n_features ELSE Len(X[1]),
     n_samples |-> reg.n_samples + Len(X)]

\* the mutant of predict: the value depends on how many calls were made
predict_drift(reg, X) ==
    IF ~reg.has_weights
    THEN AsSeq([r \in 1..Len(X) |-> 0])
    ELSE AsSeq([r \in 1..Len(X) |-> Dot(X[r], reg.weights) + reg.bias + calls])

\* X @ weights raises ValueError when the widths differ
predict_raises(reg, X) ==
    reg.has_weights /\ \E r \in 1..Len(X) : Len(X[r]) # Len(reg.weights)

\* predict(X): zeros before the first fit, X @ weights + bias after it
predict(reg, X) ==
    IF ~reg.has_weights
    THEN AsSeq([r \in 1..Len(X) |-> 0])
    ELSE AsSeq([r \in 1..Len(X) |-> Dot(X[r], reg.weights) + reg.bias])

-----------------------------------------------------------------------------
(* OnlineLinearRegression with two features, in exact arithmetic: a feature
   is an integer number of 1/FUnit, a target, a bias and a prediction of
   1/YUnit, a weight of 1/WUnit, and the regularization of 1/(FUnit * FUnit),
   the unit of sum_xx (0.01 is 1). *)

FUnit == 10
YUnit == 10 * 10
WUnit == 10 * 10 * 10

\* __init__(regularization): weights, sum_xx and sum_xy are None
OLR_init(regularization) ==
    [regularization |-> regularization, has_weights |-> FALSE, weights |-> <<>>,
     bias |-> 0, n_features |-> 0, n_samples |-> 0,
     sum_xx |-> <<>>, sum_xy |-> <<>>]

\* array arguments: a scalar, one vector, or a list of rows
Array0(v) == [ndim |-> 0, data |-> v]

Array1(v) == [ndim |-> 1, data |-> v]

Array2(rows) == [ndim |-> 2, data |-> rows]

\* len(X): the length of the first axis
np_len(X) == Len(X.data)

\* if len(X.shape) == 1: X = X.reshape(1, -1)
as_rows(X) == IF X.ndim = 1 THEN <<X.data>> ELSE X.data

\* if len(y.shape) == 0: y = np.array([y])
as_targets(y) == IF y.ndim = 0 THEN <<y.data>> ELSE y.data

np_zeros(n) == AsSeq([j \in 1..n |-> 0])

\* X.T @ X
xtx(rows, d) ==
    AsSeq([i \in 1..d |-> AsSeq([j \in 1..d |->
        SumSeq(AsSeq([r \in 1..Len(rows) |-> rows[r][i] * rows[r][j]]))])])

\* X.T @ y
xty(rows, ys, d) ==
    AsSeq([i \in 1..d |->
        SumSeq(AsSeq([r \in 1..Len(rows) |-> rows[r][i] * ys[r]]))])

MatAdd(A, B) ==
    AsSeq([i \in 1..Len(A) |-> AsSeq([j \in 1..Len(A[i]) |-> A[i][j] + B[i][j]])])

VecAdd(a, b) == AsSeq([i \in 1..Len(a) |-> a[i] + b[i]])

\* A + regularization * np.eye(n)
AddDiag(A, regularization) ==
    AsSeq([i \in 1..Len(A) |-> AsSeq([j \in 1..Len(A[i]) |->
        IF i = j THEN A[i][j] + regularization ELSE A[i][j]])])

det2(A) == A[1][1] * A[2][2] - A[1][2] * A[2][1]

\* a quotient of sum_xy by sum_xx, as a weight
WScale == (WUnit * FUnit) \div YUnit

\* np.linalg.solve(A, b) for two features: LinAlgError when A is singular,
\* else the solution (Cramer's rule)
linalg_solve(A, b) ==
    IF det2(A) = 0
    THEN [raised |-> TRUE, w |-> <<>>]
    ELSE [raised |-> FALSE,
          w |-> << MulDiv(b[1] * A[2][2] - A[1][2] * b[2], WScale, det2(A)),
                   MulDiv(A[1][1] * b[2] - A[2][1] * b[1], WScale, det2(A)) >>]

\* np.linalg.pinv(A + 1e-6 * I) @ b for a positive semidefinite A of two
\* features and b in its range, the 1e-6 being below the resolution: the
\* inverse when A is regular, A b / trace(A)^2 when A has rank 1, zero
\* when A is zero
linalg_pinv_at(A, b) ==
    IF det2(A) # 0 THEN linalg_solve(A, b).w
    ELSE IF A[1][1] + A[2][2] = 0 THEN <<0, 0>>
    ELSE << MulDiv(A[1][1] * b[1] + A[1][2] * b[2], WScale,
                   (A[1][1] + A[2][2]) * (A[1][1] + A[2][2])),
            MulDiv(A[2][1] * b[1] + A[2][2] * b[2], WScale,
                   (A[1][1] + A[2][2]) * (A[1][1] + A[2][2])) >>

\* the mutant of solve_weights: no except branch, the LinAlgError leaves
solve_weights_no_fallback(sum_xx, sum_xy, regularization) ==
    [raised |-> linalg_solve(AddDiag(sum_xx, regularization), sum_xy).raised,
     used_pinv |-> FALSE,
     w |-> linalg_solve(AddDiag(sum_xx, regularization), sum_xy).w]

\* try: solve / except np.linalg.LinAlgError: pinv
solve_weights(sum_xx, sum_xy, regularization) ==
    IF linalg_solve(AddDiag(sum_xx, regularization), sum_xy).raised
    THEN [raised |-> FALSE, used_pinv |-> TRUE,
          w |-> linalg_pinv_at(AddDiag(sum_xx, regularization), sum_xy)]
    ELSE [raised |-> FALSE, used_pinv |-> FALSE,
          w |-> linalg_solve(AddDiag(sum_xx, regularization), sum_xy).w]

\* x @ w for one row, as a prediction
PScale == (FUnit * WUnit) \div YUnit

row_dot(x, w) == SumSeq(AsSeq([j \in 1..Len(x) |-> x[j] * w[j]])) \div PScale

\* partial_fit(X, y): raised when an exception leaves the method, reg the
\* object after the call
OLR_partial_fit(reg, X, y) ==
    LET rows == as_rows(X)
        ys == as_targets(y)
        d == IF reg.has_weights THEN reg.n_features ELSE Len(rows[1])
        xx == MatAdd(IF reg.has_weights THEN reg.sum_xx ELSE xtx(<<>>, d),
                     xtx(rows, d))
        xy == VecAdd(IF reg.has_weights THEN reg.sum_xy ELSE np_zeros(d),
                     xty(rows, ys, d))
        summed == [reg EXCEPT !.has_weights = TRUE,
                              !.weights = IF reg.has_weights THEN @ ELSE np_zeros(d),
                              !.n_features = d,
                              !.sum_xx = xx, !.sum_xy = xy,
                              !.n_samples = @ + Len(rows)]
    IN  CHOOSE out \in
          { IF s.raised
            THEN [raised |-> TRUE, used_pinv |-> FALSE, reg |-> summed]
            ELSE [raised |-> FALSE, used_pinv |-> s.used_pinv,
                  reg |-> [summed EXCEPT
                             !.weights = s.w,
                             !.bias = np_mean(AsSeq([r \in 1..Len(rows) |->
                                          ys[r] - row_dot(rows[r], s.w)]))]] :
            s \in {solve_weights(xx, xy, reg.regularization)} } : TRUE

\* predict(X): np.zeros(len(X)) while weights is None, else the rows of X
\* (a vector reshaped to one row) times the weights, plus the bias
OLR_predict(reg, X) ==
    IF ~reg.has_weights
    THEN np_zeros(np_len(X))
    ELSE AsSeq([r \in 1..Len(as_rows(X)) |->
                  row_dot(as_rows(X)[r], reg.weights) + reg.bias])

-----------------------------------------------------------------------------
(* OnlineForecastingService.prepare_features *)

Prices(df) == AsSeq([i \in 1..Len(df) |-> df[i].price_usd])

\* x / current_price when current_price > 0, else the given default
Normalized(x, current_price, default) ==
    IF current_price > 0 THEN (x * RatioUnit) \div current_price ELSE default

\* the feature vector of loop index i = k - 1: window prices[i-20:i],
\* current_price = prices[i-1], price_change = prices[i] - current_price
feature_vector_at(prices, k) ==
    LET sequence == SubSeq(prices, k - sequence_length, k - 1)
        current_price == prices[k - 1]
        price_change == prices[k] - current_price
        price_mean == np_mean(sequence)
        price_std == np_std(sequence)
        price_trend == sequence[Len(sequence)] - sequence[1]
    IN  IF \E i \in (k - sequence_length)..k : ~IsFinite(prices[i])
        THEN AsSeq([j \in 1..(sequence_length + 5) |-> PosInf])
        ELSE [j \in 1..sequence_length |->
                 Normalized(sequence[j], current_price, sequence[j])]
             \o << RatioUnit,
                   Normalized(price_change, current_price, 0),
                   Normalized(price_mean, current_price, RatioUnit),
                   Normalized(price_std, current_price, 0),
                   Normalized(price_trend, current_price, 0) >>

\* normalized_target of loop index i = k - 1
target_at(prices, k) ==
    IF ~IsFinite(prices[k]) \/ ~IsFinite(prices[k - 1]) THEN PosInf
    ELSE Normalized(prices[k], prices[k - 1], RatioUnit)

\* (features, targets), or none when the loop yields no pair
prepare_features(df) ==
    LET prices == Prices(df)
        n == IF Len(df) > sequence_length THEN Len(df) - sequence_length ELSE 0
    IN  [none |-> Len(df) < 2 \/ n = 0,
         features |-> AsSeq([r \in 1..n |-> feature_vector_at(prices, sequence_length + r)]),
         targets |-> AsSeq([r \in 1..n |-> target_at(prices, sequence_length + r)])]

-----------------------------------------------------------------------------
(* OnlineForecastingService.forecast_prices *)

\* the answer of a forecast call, with the branch that produced it:
\* path is "model", "trend" or "flat"; gate names the check that sent the
\* call to simple_trend_forecast ("" on the model path)
Fallback(gate, current_price, recent_prices, predicted, prediction) ==
    [forecasts |-> simple_trend_forecast(current_price, recent_prices),
     path |-> trend_path(recent_prices),
     gate |-> gate,
     predicted |-> predicted,
     normalized_prediction |-> prediction]

\* the mutant of no_model_or_short: the model is consulted from 3 prices on
no_model_or_short3(ms, coin_id, recent_prices) ==
    coin_id \notin DOMAIN ms \/ Len(recent_prices) < 3

\* the guard of the first return
no_model_or_short(ms, coin_id, recent_prices) ==
    coin_id \notin DOMAIN ms \/ Len(recent_prices) < 5

\* the single inference feature vector (a 1 x 25 matrix)
inference_features(current_price, recent_prices) ==
    LET sequence0 == IF Len(recent_prices) >= 30
                     THEN LastN(recent_prices, 30) ELSE recent_prices
        price_mean == np_mean(sequence0)
        price_std == np_std(sequence0)
        short_trend == IF Len(sequence0) >= 5
                       THEN np_mean(np_diff(LastN(sequence0, 5))) ELSE 0
        medium_trend == IF Len(sequence0) >= 15
                        THEN np_mean(np_diff(LastN(sequence0, 15)))
                        ELSE short_trend
        sequence == IF Len(sequence0) < sequence_length
                    THEN [j \in 1..(sequence_length - Len(sequence0)) |-> current_price]
                         \o sequence0
                    ELSE LastN(sequence0, sequence_length)
    IN  << [j \in 1..sequence_length |-> (sequence[j] * RatioUnit) \div current_price]
           \o << RatioUnit,
                 (short_trend * RatioUnit) \div current_price,
                 (medium_trend * RatioUnit) \div current_price,
                 (price_mean * RatioUnit) \div current_price,
                 (price_std * RatioUnit) \div current_price >> >>

\* the mutant of out_of_band: a band of [0, 10]
out_of_band_wide(normalized_prediction) ==
    normalized_prediction < 0 \/ normalized_prediction > 10 * RatioUnit

\* the sanity band of the normalized prediction
out_of_band(normalized_prediction) ==
    normalized_prediction < RatioUnit \div 2 \/ normalized_prediction > 2 * RatioUnit

\* next_price: the prediction clipped to +/- 2% of the current price
clipped_next_price(current_price, next_price_prediction) ==
    LET max_price == current_price + (current_price * 2) \div 100
        min_price == current_price - (current_price * 2) \div 100
    IN  np_clip(next_price_prediction, min_price, max_price)

\* the mutant of too_large: the threshold of the clip (2%) instead of 1%
too_large_lax(current_price, next_price) ==
    Abs(next_price - current_price) * 100 > 2 * current_price

\* abs(next_price - current_price) / current_price > 0.01
too_large(current_price, next_price) ==
    Abs(next_price - current_price) * 100 > current_price

\* the mutant of model_prices: dampening = 0.3 ** i
model_prices_k0(current_price, next_price) ==
    LET base_trend == ((next_price - current_price) * PpmUnit) \div current_price
        p[k \in 0..forecast_horizon] ==
            IF k = 0 THEN current_price
            ELSE LET dampened == (base_trend * Pow(3, k - 1)) \div Pow(10, k - 1)
                     trend_factor == np_clip(dampened, 0 - 5000, 5000)
                     last_price == p[k - 1]
                 IN  np_clip(last_price + (last_price * trend_factor) \div PpmUnit,
                             lower_bound(current_price),
                             upper_bound(current_price))
    IN  [k \in 1..forecast_horizon |-> ForecastPoint(k, p[k])]

\* the five-step loop of the model path
model_prices(current_price, next_price) ==
    LET base_trend == ((next_price - current_price) * PpmUnit) \div current_price
        p[k \in 0..forecast_horizon] ==
            IF k = 0 THEN current_price
            ELSE LET dampened == (base_trend * Pow(3, k)) \div Pow(10, k)
                     trend_factor == np_clip(dampened, 0 - 5000, 5000)
                     last_price == p[k - 1]
                 IN  np_clip(last_price + (last_price * trend_factor) \div PpmUnit,
                             lower_bound(current_price),
                             upper_bound(current_price))
    IN  [k \in 1..forecast_horizon |-> ForecastPoint(k, p[k])]

\* the mutant of safe_transform: the raw features are used when the
\* transform fails
unsafe_transform(sc, X) ==
    [raised |-> FALSE,
     X |-> IF scaler_transform_raises(sc, X) THEN X ELSE scaler_transform(sc, X)]

\* the transform inside the try block: raised when it throws
safe_transform(sc, X) ==
    [raised |-> scaler_transform_raises(sc, X),
     X |-> IF scaler_transform_raises(sc, X) THEN <<>> ELSE scaler_transform(sc, X)]

forecast_prices(ms, scs, coin_id, current_price, recent_prices) ==
    IF no_model_or_short(ms, coin_id, recent_prices)
    THEN Fallback("guard", current_price, recent_prices, FALSE, 0)
    ELSE
    LET feature_vector == inference_features(current_price, recent_prices)
        transformed == safe_transform(scs[coin_id], feature_vector)
        scaled == transformed.X
        normalized_prediction == predict(ms[coin_id], scaled)[1]
        next_price_prediction == MulDiv(normalized_prediction, current_price, RatioUnit)
        next_price == clipped_next_price(current_price, next_price_prediction)
    IN  IF transformed.raised
        THEN Fallback("scale_error", current_price, recent_prices, FALSE, 0)
        ELSE IF predict_raises(ms[coin_id], scaled)
        THEN Fallback("predict_error", current_price, recent_prices, FALSE, 0)
        ELSE IF out_of_band(normalized_prediction)
        THEN Fallback("band", current_price, recent_prices, TRUE, normalized_prediction)
        ELSE IF too_large(current_price, next_price)
        THEN Fallback("too_large", current_price, recent_prices, TRUE, normalized_prediction)
        ELSE [forecasts |-> model_prices(current_price, next_price),
              path |-> "model",
              gate |-> "",
              predicted |-> TRUE,
              normalized_prediction |-> normalized_prediction]

-----------------------------------------------------------------------------
(* OnlineForecastingService.train_incremental_model *)

EmptyMap == [c \in {} |-> 0]

Put(map, key, value) ==
    [c \in DOMAIN map \cup {key} |-> IF c = key THEN value ELSE map[c]]

Remove(map, key) == [c \in DOMAIN map \ {key} |-> map[c]]

\* the scaler step of the training path: partial_fit for a single sample,
\* fit_transform for the first batch of several, partial_fit afterwards
train_scaler(sc, features) ==
    IF Len(features) = 1 THEN scaler_partial_fit(sc, features)
    ELSE IF ~sc.fitted THEN scaler_fit(sc, features)
    ELSE scaler_partial_fit(sc, features)

\* no try/except surrounds the scaler step: a ValueError of the scaler
\* leaves train_incremental_model
train_raises(sc, features) == ~scaler_accepts(sc, features)

\* the whole method; w is the solution the regressor's solve returns.
\* raised: an exception left the method (after the three entries of a new
\* coin were created)
train_incremental_model(ms, scs, ph, coin_id, features, targets, w) ==
    LET is_new == coin_id \notin DOMAIN ms
        ms1 == IF is_new THEN Put(ms, coin_id, NewRegression) ELSE ms
        scs1 == IF is_new THEN Put(scs, coin_id, NewScaler) ELSE scs
        ph1 == IF is_new THEN Put(ph, coin_id, <<>>) ELSE ph
        sc2 == train_scaler(scs1[coin_id], features)
        features_scaled == scaler_transform(sc2, features)
    IN  IF train_raises(scs1[coin_id], features)
        THEN [raised |-> TRUE, models |-> ms1, scalers |-> scs1,
              price_history |-> ph1]
        ELSE [raised |-> FALSE,
              models |-> Put(ms1, coin_id,
                             regression_partial_fit(ms1[coin_id], features_scaled,
                                                    targets, w)),
              scalers |-> Put(scs1, coin_id, sc2),
              price_history |-> ph1]

-----------------------------------------------------------------------------
(* OnlineForecastingService.process_and_forecast *)

NoForecast == [forecasts |-> <<>>, path |-> "none", gate |-> "",
               predicted |-> FALSE, normalized_prediction |-> 0]

\* the mutant of must_migrate: the flag is not consulted
must_migrate_always(ms, mig, coin_id) == coin_id \in DOMAIN ms

\* the test of the migration block at the top of process_and_forecast
must_migrate(ms, mig, coin_id) == coin_id \in DOMAIN ms /\ ~mig

\* the mutant of insufficient_data: <= instead of <
insufficient_data_strict(read) ==
    read.none \/ Len(read.df) <= sequence_length + 1

\* the first early return of None: no data, or fewer than
\* sequence_length + 1 rows
insufficient_data(read) == read.none \/ Len(read.df) < sequence_length + 1

\* the rows of the last 60 minutes, or the tail when these are fewer than 10
recent_rows(df) ==
    LET current_time == df[Len(df)].timestamp
        sixty_minutes_ago == current_time - window_minutes
        recent_df == SelectSeq(df, LAMBDA row : row.timestamp >= sixty_minutes_ago)
    IN  IF Len(recent_df) < min_rows_60min
        THEN LastN(df, Max2(10, Min2(60, Len(df))))
        ELSE recent_df

\* deque(maxlen=100).extend(prices)
deque_extend(dq, prices) == LastN(dq \o prices, price_history_maxlen)

\* what a call did: its arguments (for process_and_forecast the rows read:
\* rows = -1 for None), its outcome (status "ok": a result was returned,
\* "none": None was returned, "raised": an exception left the call), the
\* forecast with its path, whether the regressor was updated, whether the
\* scaler step of training raised, and whether the coin had a model when
\* the forecast was made
Observation(op, coin_id, rows, status, current_price, recent_prices, fc, trained, scaler_failed, had_model) ==
    [op |-> op, coin_id |-> coin_id, rows |-> rows, status |-> status,
     current_price |-> current_price, recent_prices |-> recent_prices,
     fc |-> fc, trained |-> trained, scaler_failed |-> scaler_failed,
     had_model |-> had_model]

\* the mutant of migration_block: the dictionaries are emptied
\* (self.models.clear()) instead of del self.models[coin_id]
migration_block_all(ms, scs, ph, mig, coin_id) ==
    [models |-> EmptyMap,
     scalers |-> EmptyMap,
     price_history |-> [c \in DOMAIN ph |-> <<>>],
     migrated |-> TRUE]

\* the mutant of migration_block: del self.scalers[coin_id] is left out
migration_block_keep_scaler(ms, scs, ph, mig, coin_id) ==
    [models |-> Remove(ms, coin_id),
     scalers |-> scs,
     price_history |-> IF coin_id \in DOMAIN ph THEN Put(ph, coin_id, <<>>) ELSE ph,
     migrated |-> TRUE]

\* the body of the migration block: the entries of the coin are deleted, its
\* buffer is cleared and the flag is set
migration_block(ms, scs, ph, mig, coin_id) ==
    [models |-> Remove(ms, coin_id),
     scalers |-> Remove(scs, coin_id),
     price_history |-> IF coin_id \in DOMAIN ph THEN Put(ph, coin_id, <<>>) ELSE ph,
     migrated |-> TRUE]

\* the mutant of pass_forecast: the forecast is made from the dictionaries
\* as they were before the training step
pass_forecast_stale(ms0, scs0, tr, coin_id, current_price, recent_prices) ==
    forecast_prices(ms0, scs0, coin_id, current_price, recent_prices)

\* the forecast of a pass: made after train_incremental_model, from the
\* dictionaries as the training step left them (ms0, scs0: before it)
pass_forecast(ms0, scs0, tr, coin_id, current_price, recent_prices) ==
    forecast_prices(tr.models, tr.scalers, coin_id, current_price, recent_prices)

\* process_and_forecast after the migration block, on the dictionaries
\* ms0, scs0, ph0: read, prepare, train, extend the buffer, forecast
read_train_forecast(ms0, scs0, ph0, coin_id, read, w) ==
    LET rows == IF read.none THEN 0 - 1 ELSE Len(read.df)
        pf == prepare_features(read.df)
        tr == train_incremental_model(ms0, scs0, ph0, coin_id,
                                      pf.features, pf.targets, w)
        recent_prices == Prices(recent_rows(read.df))
        current_price == recent_prices[Len(recent_prices)]
        fc == pass_forecast(ms0, scs0, tr, coin_id, current_price, recent_prices)
    IN  IF insufficient_data(read) \/ pf.none
        THEN \* return None
             [models |-> ms0, scalers |-> scs0, price_history |-> ph0,
              obs |-> Observation("process_and_forecast", coin_id, rows, "none",
                                  0, <<>>, NoForecast, FALSE, FALSE,
                                  coin_id \in DOMAIN ms0)]
        ELSE IF tr.raised
        THEN \* the exception of the training step leaves the call
             [models |-> tr.models, scalers |-> tr.scalers,
              price_history |-> tr.price_history,
              obs |-> Observation("process_and_forecast", coin_id, rows, "raised",
                                  0, <<>>, NoForecast, FALSE, TRUE,
                                  coin_id \in DOMAIN ms0)]
        ELSE \* trained, history extended, forecast made and returned
             [models |-> tr.models, scalers |-> tr.scalers,
              price_history |->
                  Put(tr.price_history, coin_id,
                      deque_extend(tr.price_history[coin_id], recent_prices)),
              obs |-> Observation("process_and_forecast", coin_id, rows, "ok",
                                  current_price, recent_prices, fc, TRUE,
                                  FALSE, TRUE)]

\* process_and_forecast(coin_id) as a function of the service's state, of
\* what read_data_from_minio returns and of the solution w of the solve
process_and_forecast(ms, scs, ph, mig, coin_id, read, w) ==
    LET m == IF must_migrate(ms, mig, coin_id)
             THEN migration_block(ms, scs, ph, mig, coin_id)
             ELSE [models |-> ms, scalers |-> scs, price_history |-> ph,
                   migrated |-> mig]
        r == read_train_forecast(m.models, m.scalers, m.price_history,
                                 coin_id, read, w)
    IN  [models |-> r.models, scalers |-> r.scalers,
         price_history |-> r.price_history, migrated |-> m.migrated,
         obs |-> r.obs]


-----------------------------------------------------------------------------
(* Inputs *)

\* price i of a series: one price per row, around 100.00
SeriesPrice(kind, i) ==
    CASE kind = "up" -> 10000 + 10 * i
      [] kind = "down" -> 10000 - 7 * i
      [] kind = "surge" -> 10000 + 300 * i
      [] kind = "crash" -> 10000 - 300 * i
      [] OTHER -> 10000

Series(kind, n) == AsSeq([i \in 1..n |-> SeriesPrice(kind, i)])

\* n rows, one every `spacing` minutes, sorted by timestamp as
\* read_data_from_minio returns them
DataFrame(kind, n, spacing) ==
    AsSeq([i \in 1..n |-> [timestamp |-> i * spacing,
                           price_usd |-> SeriesPrice(kind, i)]])

\* a frame whose last price is inf
WithInf(df) ==
    AsSeq([i \in 1..Len(df) |-> IF i = Len(df)
                                THEN [df[i] EXCEPT !.price_usd = PosInf] ELSE df[i]])

\* what read_data_from_minio returns: None, or the rows of the coin
ReadResults ==
    { [none |-> TRUE, df |-> <<>>],
      [none |-> FALSE, df |-> DataFrame("up", sequence_length, 1)],
      [none |-> FALSE, df |-> DataFrame("up", sequence_length + 1, 1)],
      [none |-> FALSE, df |-> DataFrame("down", sequence_length + 2, 5)],
      [none |-> FALSE, df |-> DataFrame("surge", sequence_length + 2, 10)],
      [none |-> FALSE, df |-> WithInf(DataFrame("up", sequence_length + 1, 1))] }

\* arguments (current_price, recent_prices) of a direct call of
\* forecast_prices / simple_trend_forecast: the current price is the last
\* price of the history, or a price of its own
OwnPrice(recent_prices) ==
    IF recent_prices = <<>> THEN 10000 ELSE recent_prices[Len(recent_prices)]

Histories ==
    { <<>>, Series("up", 2), Series("surge", 3), Series("crash", 4),
      Series("up", 5), Series("surge", 12), Series("crash", 31),
      Series("up", sequence_length + 1) }

DirectInputs ==
    { <<OwnPrice(h), h>> : h \in Histories }
    \cup { <<20000, Series("down", 12)>> }

\* a history of ten prices rising by 0.1% of the current price per step,
\* 100.0, 100.1, ..., 100.9 for a current price of 100, written at 100 times
\* these prices so that the forecasts keep three more decimals
ExampleStep == 10 * 100
ExamplePrice == 1000 * ExampleStep
ExampleHistory == AsSeq([i \in 1..10 |-> ExamplePrice + ExampleStep * (i - 1)])

\* arguments of a direct call of simple_trend_forecast
TrendInputs == DirectInputs \cup { <<ExamplePrice, ExampleHistory>> }

-----------------------------------------------------------------------------
(* save_forecast_prices_to_csv.  A line of the CSV is the record of its six
   fields (none of them contains a comma, so split(',') gives them back);
   the header line is kept apart.  Times are seconds. *)

\* the csv_rows of a forecast result generated at time generated_at
csv_rows(coin_id, current_price, forecasts, generated_at) ==
    AsSeq([i \in 1..Len(forecasts) |->
             [timestamp |-> generated_at + 60 * forecasts[i].minute,
              coin_id |-> coin_id,
              forecast_minute |-> forecasts[i].minute,
              forecast_price |-> forecasts[i].forecast_price,
              current_price |-> current_price,
              generated_at |-> generated_at]])

\* the mutant of keep_line: every existing line is kept
keep_line_all(line, coin_id, current_time) == TRUE

\* keep if different coin or old forecast (> 5 minutes)
keep_line(line, coin_id, current_time) ==
    line.coin_id # coin_id \/ current_time - line.generated_at > stale_after

RECURSIVE filter_lines(_, _, _)
filter_lines(lines, coin_id, current_time) ==
    IF lines = <<>> THEN <<>>
    ELSE (IF keep_line(Head(lines), coin_id, current_time) THEN <<Head(lines)>> ELSE <<>>)
         \o filter_lines(Tail(lines), coin_id, current_time)

\* the data lines of the file after the call: the new rows alone when the
\* file does not exist (get_object raises) or holds no data line, else the
\* filtered lines followed by the new rows
final_csv_content(file_exists, data_lines, coin_id, current_time, new_rows) ==
    IF ~file_exists \/ data_lines = <<>>
    THEN new_rows
    ELSE filter_lines(data_lines, coin_id, current_time) \o new_rows

\* save_forecast_prices_to_csv(forecast_result) on the file and clock cs;
\* the result was generated at the time of the clock
save_forecast_prices_to_csv(cs, coin_id, current_price, forecasts) ==
    CHOOSE after \in
      { [cs EXCEPT
           !.exists = TRUE,
           !.rows = content,
           !.saves = @ + 1,
           !.saved = [coin_id |-> coin_id, rows |-> new_rows,
                      dropped |-> Len(cs.rows) + Len(new_rows) - Len(content),
                      ok |-> TRUE]] :
        new_rows \in {csv_rows(coin_id, current_price, forecasts, cs.now)},
        content \in {final_csv_content(cs.exists, cs.rows, coin_id, cs.now,
                                       csv_rows(coin_id, current_price, forecasts, cs.now))} } : TRUE

\* line 531: a pass that made a forecast saves it before it returns
save_of_pass(cs, obs) ==
    IF obs.status = "ok"
    THEN save_forecast_prices_to_csv(cs, obs.coin_id, obs.current_price, obs.fc.forecasts)
    ELSE cs

-----------------------------------------------------------------------------
(* State machine *)

\* no call was made yet
NoCall == Observation("init", "", 0, "ok", 0, <<>>, NoForecast, FALSE, FALSE, FALSE)

\* the service loop before its first pass
LoopStart == [pc |-> "start", listed |-> <<>>, coins |-> <<>>, i |-> 1, done |-> <<>>, outcomes |-> <<>>, passes |-> 0]

\* the dictionaries and the flag of a service instance
ServiceState(ms, scs, ph, mig) ==
    [models |-> ms, scalers |-> scs, price_history |-> ph, migrated |-> mig]

\* no pass is running beside another one
NoThreads ==
    [phase |-> "sequential", warmed |-> 0,
     start |-> ServiceState(EmptyMap, EmptyMap, EmptyMap, FALSE),
     th |-> [c \in Coins |-> [pc |-> "idle", migrate |-> FALSE,
                              read |-> [none |-> TRUE, df |-> <<>>], w |-> <<>>,
                              result |-> NoCall]]]

\* a regressor object just constructed
Constructed(regularization) ==
    [obj |-> OLR_init(regularization), fits |-> 0,
     out |-> [op |-> "init", raised |-> FALSE, used_pinv |-> FALSE,
              X |-> Array2(<<>>), value |-> <<>>]]

\* the service after construction
ServiceInit ==
    /\ models = EmptyMap
    /\ scalers = EmptyMap
    /\ price_history = EmptyMap
    /\ migrated = FALSE
    /\ last = NoCall
    /\ calls = 0
    /\ loop = LoopStart
    /\ threads = NoThreads

\* prepare_features was not called yet
NotPrepared ==
    [called |-> FALSE, df |-> <<>>, none |-> TRUE, features |-> <<>>, targets |-> <<>>]

\* no forecast CSV of the day exists yet; the clock is at 0 seconds
NoCsv ==
    [exists |-> FALSE, rows |-> <<>>, now |-> 0, ticks |-> 0, saves |-> 0,
     saved |-> [coin_id |-> "", rows |-> <<>>, dropped |-> 0, ok |-> TRUE]]

Init ==
    /\ ServiceInit
    /\ regressor = Constructed(1)
    /\ prepared = NotPrepared
    /\ csv = NoCsv

\* the solutions the solve of this call may return: it runs only when the
\* call reaches the regressor's partial_fit
Solutions(coin_id, read) ==
    IF insufficient_data(read) \/ prepare_features(read.df).none
       \/ ~MatrixFinite(prepare_features(read.df).features)
    THEN {<<>>}
    ELSE SolveOutcomes(sequence_length + 5)

\* a call process_and_forecast(coin_id), with what read_data_from_minio
\* returns and the solution w the regressor's solve returns if it runs
ProcessAndForecast(coin_id, read, w) ==
    /\ calls < MaxCalls
    /\ calls' = calls + 1
    /\ \E r \in {process_and_forecast(models, scalers, price_history, migrated,
                                        coin_id, read, w)} :
           /\ models' = r.models
           /\ scalers' = r.scalers
           /\ price_history' = r.price_history
           /\ migrated' = r.migrated
           /\ last' = r.obs
           /\ csv' = save_of_pass(csv, r.obs)
    /\ UNCHANGED <<loop, threads, regressor, prepared>>

\* a direct call forecast_prices(coin_id, current_price, recent_prices)
\* the mutant of ForecastPrices: the forecast also counts as a sample of
\* the coin's regressor
ForecastPrices_refit(coin_id, current_price, recent_prices) ==
    /\ calls < MaxCalls
    /\ calls' = calls + 1
    /\ last' = Observation("forecast_prices", coin_id, 0, "ok", current_price,
                           recent_prices,
                           forecast_prices(models, scalers, coin_id,
                                           current_price, recent_prices),
                           FALSE, FALSE, coin_id \in DOMAIN models)
    /\ models' = IF coin_id \in DOMAIN models
                 THEN [models EXCEPT ![coin_id].n_samples = @ + 1]
                 ELSE models
    /\ UNCHANGED <<scalers, price_history, migrated, loop, threads, regressor, prepared, csv>>

\* a direct call forecast_prices(coin_id, current_price, recent_prices)
ForecastPrices(coin_id, current_price, recent_prices) ==
    /\ calls < MaxCalls
    /\ calls' = calls + 1
    /\ last' = Observation("forecast_prices", coin_id, 0, "ok", current_price,
                           recent_prices,
                           forecast_prices(models, scalers, coin_id,
                                           current_price, recent_prices),
                           FALSE, FALSE, coin_id \in DOMAIN models)
    /\ UNCHANGED <<models, scalers, price_history, migrated, loop, threads, regressor, prepared, csv>>

\* a direct call simple_trend_forecast(current_price, recent_prices)
SimpleTrendForecast(current_price, recent_prices) ==
    /\ calls < MaxCalls
    /\ calls' = calls + 1
    /\ last' = Observation("simple_trend_forecast", "", 0, "ok", current_price,
                           recent_prices,
                           [forecasts |-> simple_trend_forecast(current_price,
                                                                recent_prices),
                            path |-> trend_path(recent_prices),
                            gate |-> "direct",
                            predicted |-> FALSE,
                            normalized_prediction |-> 0],
                           FALSE, FALSE, FALSE)
    /\ UNCHANGED <<models, scalers, price_history, migrated, loop, threads, regressor, prepared, csv>>

Next ==
    \/ \E coin_id \in Coins, read \in ReadResults :
          \E w \in Solutions(coin_id, read) :
            ProcessAndForecast(coin_id, read, w)
    \/ \E coin_id \in Coins, input \in DirectInputs :
            ForecastPrices(coin_id, input[1], input[2])
    \/ \E input \in TrendInputs :
            SimpleTrendForecast(input[1], input[2])

Spec == Init /\ [][Next]_vars

-----------------------------------------------------------------------------
(* OnlineForecastingService.run_continuous_forecasting *)

\* coin_ids[:50]
max_coins == 50

\* the mutant of current_coins: the list is taken whole
current_coins_all(coin_ids) == coin_ids

\* coin_ids[:50]
current_coins(coin_ids) == SubSeq(coin_ids, 1, Min2(Len(coin_ids), max_coins))

\* a list of 51 distinct coins for which the storage holds no rows
ManyCoins ==
    << "coin01", "coin02", "coin03", "coin04", "coin05", "coin06",
       "coin07", "coin08", "coin09", "coin10", "coin11", "coin12",
       "coin13", "coin14", "coin15", "coin16", "coin17", "coin18",
       "coin19", "coin20", "coin21", "coin22", "coin23", "coin24",
       "coin25", "coin26", "coin27", "coin28", "coin29", "coin30",
       "coin31", "coin32", "coin33", "coin34", "coin35", "coin36",
       "coin37", "coin38", "coin39", "coin40", "coin41", "coin42",
       "coin43", "coin44", "coin45", "coin46", "coin47", "coin48",
       "coin49", "coin50", "coin51" >>

\* the coin lists a pass may get, from the caller or from get_top_50_coin_ids
CoinLists ==
    { <<>>, <<"bitcoin">>, <<"bitcoin", "ethereum">>, <<"ethereum", "bitcoin">>,
      ManyCoins }

\* what read_data_from_minio returns during a pass: None, a frame that
\* trains, a frame with an inf price
ServiceReads ==
    { [none |-> TRUE, df |-> <<>>],
      [none |-> FALSE, df |-> DataFrame("up", sequence_length + 1, 1)],
      [none |-> FALSE, df |-> WithInf(DataFrame("up", sequence_length + 1, 1))] }

\* the reads of the coin at the head of the for loop: read_data_from_minio
\* returns None for a coin without rows
ReadsAt(lp) ==
    IF lp.pc = "for" /\ lp.i <= Len(lp.coins) /\ lp.coins[lp.i] \notin Coins
    THEN { [none |-> TRUE, df |-> <<>>] }
    ELSE ServiceReads

\* the solve of a pass returns the zero weights
ServiceSolutions(coin_id, read) ==
    { w \in Solutions(coin_id, read) : w = <<>> \/ w[1] = 0 }

\* the mutant of next_index: an exception of process_and_forecast leaves
\* the for loop
next_index_abort(i, status, n) == IF status = "raised" THEN n + 1 ELSE i + 1

\* the for loop after coin i of n: a result, None and an exception
\* (except Exception: continue) all lead to the next coin
next_index(i, status, n) == i + 1

\* the top of the while loop: the coin list of the pass; an empty list
\* sleeps and continues
StartPass(coin_ids) ==
    /\ loop.pc = "start"
    /\ loop.passes < MaxPasses
    /\ loop' = [pc |-> IF current_coins(coin_ids) = <<>> THEN "sleep" ELSE "for",
                listed |-> coin_ids, coins |-> current_coins(coin_ids), i |-> 1,
                done |-> <<>>, outcomes |-> <<>>,
                passes |-> loop.passes]
    /\ UNCHANGED <<models, scalers, price_history, migrated, last, calls, threads, regressor, prepared, csv>>

\* one iteration of the for loop: process_and_forecast(coin_id) inside
\* try / except Exception
PassStep(read, w) ==
    /\ loop.pc = "for"
    /\ loop.i <= Len(loop.coins)
    /\ \E r \in {process_and_forecast(models, scalers, price_history, migrated,
                                        loop.coins[loop.i], read, w)} :
           /\ models' = r.models
           /\ scalers' = r.scalers
           /\ price_history' = r.price_history
           /\ migrated' = r.migrated
           /\ last' = r.obs
           /\ loop' = [loop EXCEPT
                         !.done = Append(@, loop.coins[loop.i]),
                         !.outcomes = Append(@, r.obs.status),
                         !.i = next_index(loop.i, r.obs.status, Len(loop.coins))]
           /\ csv' = save_of_pass(csv, r.obs)
    /\ UNCHANGED <<calls, threads, regressor, prepared>>

\* the for loop is over: the pass sleeps
EndPass ==
    /\ loop.pc = "for"
    /\ loop.i > Len(loop.coins)
    /\ loop' = [loop EXCEPT !.pc = "sleep"]
    /\ UNCHANGED <<models, scalers, price_history, migrated, last, calls, threads, regressor, prepared, csv>>

\* time.sleep(interval_seconds) returns: back to the top of the while loop
Wake ==
    /\ loop.pc = "sleep"
    /\ loop' = [loop EXCEPT !.pc = "start", !.passes = @ + 1]
    /\ UNCHANGED <<models, scalers, price_history, migrated, last, calls, threads, regressor, prepared, csv>>

NextService ==
    \/ \E coin_ids \in CoinLists : StartPass(coin_ids)
    \/ \E read \in ReadsAt(loop) : \E w \in ServiceSolutions(loop.coins[loop.i], read) : PassStep(read, w)
    \/ EndPass
    \/ Wake

SpecService == Init /\ [][NextService]_vars

\* the mutant of after_exception: no outer handler, the exception ends
\* run_continuous_forecasting
after_exception_exit == "stopped"

\* where the outer `except Exception` leaves the loop: it sleeps the
\* interval, and the while loop goes on
after_exception == "sleep"

\* an exception raised in the try block of the while loop outside the
\* try / except of an iteration (by the slice of the coin list, by a print):
\* the rest of the pass is abandoned and the outer handler runs
OuterException ==
    /\ loop.pc \in {"start", "for"}
    /\ loop.passes < MaxPasses
    /\ loop' = [loop EXCEPT !.pc = after_exception,
                            !.outcomes = Append(@, "exception")]
    /\ UNCHANGED <<models, scalers, price_history, migrated, last, calls, threads, regressor, prepared, csv>>

\* what read_data_from_minio returns in the passes of SpecLoop: None, or
\* rows with an inf price, so that an iteration returns None or raises
LoopReads ==
    { [none |-> TRUE, df |-> <<>>],
      [none |-> FALSE, df |-> WithInf(DataFrame("up", sequence_length + 1, 1))] }

NextLoop ==
    \/ \E coin_ids \in CoinLists : StartPass(coin_ids)
    \/ \E read \in (ReadsAt(loop) \cap LoopReads) : \E w \in ServiceSolutions(loop.coins[loop.i], read) : PassStep(read, w)
    \/ EndPass
    \/ Wake
    \/ OuterException

\* the loop runs in a thread of its own that is never suspended for ever:
\* a step that can be taken is taken
SpecLoop == Init /\ [][NextLoop]_vars /\ WF_vars(NextLoop)

-----------------------------------------------------------------------------
(* prepare_features called on its own *)

\* the frame df with the price of row k replaced by v
WithPrice(df, k, v) ==
    AsSeq([i \in 1..Len(df) |-> IF i = k THEN [df[i] EXCEPT !.price_usd = v] ELSE df[i]])

\* prices of the last rows of a frame: around 100.00, and 0
TailPrices == {0, 9990, 10000, 10010, 10050}

\* frames of sequence_length + 2 rows (two training pairs) whose last three
\* prices vary, and frames too short for a pair
FeatureFrames ==
    { WithPrice(WithPrice(WithPrice(DataFrame("up", sequence_length + 2, 1),
                                    sequence_length, a),
                          sequence_length + 1, b),
                sequence_length + 2, c) :
        a \in TailPrices, b \in TailPrices, c \in TailPrices }
    \cup { DataFrame("up", 1, 1), DataFrame("up", sequence_length, 1) }

PrepareFeatures(df) ==
    /\ \E r \in {prepare_features(df)} :
          prepared' = [called |-> TRUE, df |-> df, none |-> r.none,
                       features |-> r.features, targets |-> r.targets]
    /\ UNCHANGED <<models, scalers, price_history, migrated, last, calls, loop, threads, regressor, csv>>

NextFeatures == \E df \in FeatureFrames : PrepareFeatures(df)

SpecFeatures == Init /\ [][NextFeatures]_vars

-----------------------------------------------------------------------------
(* save_forecast_prices_to_csv called on its own *)

\* the forecast lists of the results that are saved: none, and five points
SavedForecasts == { <<>>, flat_forecast(10000) }

\* save_forecast_prices_to_csv(forecast_result) at the time of the clock;
\* the result was generated at that time
SaveForecastPricesToCsv(coin_id, forecasts) ==
    /\ csv.saves < MaxSaves
    /\ csv' = save_forecast_prices_to_csv(csv, coin_id, 10000, forecasts)
    /\ UNCHANGED <<models, scalers, price_history, migrated, last, calls, loop, threads, regressor, prepared>>

\* a third of the five minutes passes
Tick ==
    /\ csv.ticks < MaxTicks
    /\ csv' = [csv EXCEPT !.now = @ + stale_after \div 3, !.ticks = @ + 1]
    /\ UNCHANGED <<models, scalers, price_history, migrated, last, calls, loop, threads, regressor, prepared>>

NextCsv ==
    \/ \E coin_id \in Coins, forecasts \in SavedForecasts :
          SaveForecastPricesToCsv(coin_id, forecasts)
    \/ Tick

SpecCsv == Init /\ [][NextCsv]_vars

-----------------------------------------------------------------------------
(* An OnlineLinearRegression object used on its own *)

\* regularization: 0.0 and 0.01 (the value the service passes)
Regularizations == {0, 1}

\* batches (X, y) of partial_fit: identical rows, independent rows, zero
\* rows, a single vector with a scalar target, three identical rows
FitInputs ==
    { <<Array2(<< <<10, 20>>, <<10, 20>> >>), Array1(<<100, 102>>)>>,
      <<Array2(<< <<10, 0>>, <<0, 10>> >>), Array1(<<101, 99>>)>>,
      <<Array2(<< <<0, 0>>, <<0, 0>> >>), Array1(<<100, 100>>)>>,
      <<Array1(<<10, 20>>), Array0(101)>>,
      <<Array2(<< <<0 - 5, 15>>, <<0 - 5, 15>>, <<0 - 5, 15>> >>),
        Array1(<<98, 100, 102>>)>> }

\* arguments of predict: one row, two rows, a single vector
PredictInputs ==
    { Array2(<< <<10, 20>> >>),
      Array2(<< <<10, 20>>, <<0, 10>> >>),
      Array1(<<10, 20>>) }

InitRegression ==
    /\ ServiceInit
    /\ regressor \in {Constructed(l) : l \in Regularizations}
    /\ prepared = NotPrepared
    /\ csv = NoCsv

PartialFit(X, y) ==
    /\ regressor.fits < MaxFits
    /\ \E r \in {OLR_partial_fit(regressor.obj, X, y)} :
          regressor' = [obj |-> r.reg, fits |-> regressor.fits + 1,
                        out |-> [op |-> "partial_fit", raised |-> r.raised,
                                 used_pinv |-> r.used_pinv, X |-> X,
                                 value |-> <<>>]]
    /\ UNCHANGED <<models, scalers, price_history, migrated, last, calls, loop, threads, prepared, csv>>

Predict(X) ==
    /\ regressor' = [regressor EXCEPT
                       !.out = [op |-> "predict", raised |-> FALSE,
                                used_pinv |-> FALSE, X |-> X,
                                value |-> OLR_predict(regressor.obj, X)]]
    /\ UNCHANGED <<models, scalers, price_history, migrated, last, calls, loop, threads, prepared, csv>>

NextRegression ==
    \/ \E input \in FitInputs : PartialFit(input[1], input[2])
    \/ \E X \in PredictInputs : Predict(X)

SpecRegression == InitRegression /\ [][NextRegression]_vars

-----------------------------------------------------------------------------
(* process_and_forecast of two coins side by side.  The service first runs
   sequential calls; then one call per coin is started and the steps of the
   two calls interleave: the test of the migration block, its body, and the
   rest of the call. *)

\* a sequential call before the two calls are started
WarmUp(coin_id, read, w) ==
    /\ threads.phase = "sequential"
    /\ threads.warmed < MaxWarm
    /\ \E r \in {process_and_forecast(models, scalers, price_history, migrated,
                                        coin_id, read, w)} :
           /\ models' = r.models
           /\ scalers' = r.scalers
           /\ price_history' = r.price_history
           /\ migrated' = r.migrated
           /\ last' = r.obs
           /\ csv' = save_of_pass(csv, r.obs)
    /\ threads' = [threads EXCEPT !.warmed = @ + 1]
    /\ UNCHANGED <<calls, loop, regressor, prepared>>

\* what read_data_from_minio returns to a call that runs beside another
ParallelReads ==
    { [none |-> TRUE, df |-> <<>>],
      [none |-> FALSE, df |-> DataFrame("up", sequence_length + 1, 1)] }

\* one call per coin is started, each with the data it will read and the
\* solution its solve will return
Launch(reads) ==
    /\ threads.phase = "sequential"
    /\ threads' = [phase |-> "parallel",
                   warmed |-> threads.warmed,
                   start |-> ServiceState(models, scalers, price_history, migrated),
                   th |-> [c \in Coins |->
                             [pc |-> "test", migrate |-> FALSE, read |-> reads[c],
                              w |-> CHOOSE w \in ServiceSolutions(c, reads[c]) : TRUE,
                              result |-> NoCall]]]
    /\ UNCHANGED <<models, scalers, price_history, migrated, last, calls, loop, regressor, prepared, csv>>

\* line 471: the call of coin c evaluates the condition of the migration block
TestMigrate(c) ==
    /\ threads.phase = "parallel"
    /\ threads.th[c].pc = "test"
    /\ threads' = [threads EXCEPT !.th[c].pc = "migrate",
                                  !.th[c].migrate = must_migrate(models, migrated, c)]
    /\ UNCHANGED <<models, scalers, price_history, migrated, last, calls, loop, regressor, prepared, csv>>

\* lines 472-478: the body of the migration block, if the condition held
DoMigrate(c) ==
    /\ threads.phase = "parallel"
    /\ threads.th[c].pc = "migrate"
    /\ \E m \in {IF threads.th[c].migrate
                  THEN migration_block(models, scalers, price_history, migrated, c)
                  ELSE ServiceState(models, scalers, price_history, migrated)} :
           /\ models' = m.models
           /\ scalers' = m.scalers
           /\ price_history' = m.price_history
           /\ migrated' = m.migrated
    /\ threads' = [threads EXCEPT !.th[c].pc = "rest"]
    /\ UNCHANGED <<last, calls, loop, regressor, prepared, csv>>

\* lines 480-533: read, prepare, train, extend the buffer, forecast, return
RestOfPass(c) ==
    /\ threads.phase = "parallel"
    /\ threads.th[c].pc = "rest"
    /\ \E r \in {read_train_forecast(models, scalers, price_history, c,
                                       threads.th[c].read, threads.th[c].w)} :
           /\ models' = r.models
           /\ scalers' = r.scalers
           /\ price_history' = r.price_history
           /\ last' = r.obs
           /\ threads' = [threads EXCEPT !.th[c].pc = "done",
                                         !.th[c].result = r.obs]
           /\ csv' = save_of_pass(csv, r.obs)
    /\ UNCHANGED <<migrated, calls, loop, regressor, prepared>>

NextParallel ==
    \/ \E coin_id \in Coins, read \in ServiceReads : \E w \in ServiceSolutions(coin_id, read) : WarmUp(coin_id, read, w)
    \/ \E reads \in [Coins -> ParallelReads] : Launch(reads)
    \/ \E c \in Coins : TestMigrate(c)
    \/ \E c \in Coins : DoMigrate(c)
    \/ \E c \in Coins : RestOfPass(c)

SpecParallel == Init /\ [][NextParallel]_vars

-----------------------------------------------------------------------------
(* Claims *)

\* the last call returned a forecast
ForecastAnswered ==
    /\ last.op \in {"forecast_prices", "simple_trend_forecast", "process_and_forecast"}
    /\ last.status = "ok"

\* the last call went through forecast_prices
ForecastPricesAnswered ==
    /\ last.op \in {"forecast_prices", "process_and_forecast"}
    /\ last.status = "ok"

\* the answer is what simple_trend_forecast returns for the same arguments
IsTrendFallback ==
    /\ last.fc.path # "model"
    /\ last.fc.forecasts = simple_trend_forecast(last.current_price, last.recent_prices)

\* the raw average change of the history, before the 0.5% clip
RawAvgChange(recent_prices) == np_mean(np_diff(LastN(recent_prices, 10)))

\* C1: for a positive current price every returned forecast_price lies in
\* [0.93 x current_price, 1.07 x current_price], whichever call and path
C1_BoundedOutput ==
    (ForecastAnswered /\ last.current_price > 0) =>
        \A k \in 1..Len(last.fc.forecasts) :
            /\ last.fc.forecasts[k].forecast_price >= (last.current_price * 93) \div 100
            /\ last.fc.forecasts[k].forecast_price <= (last.current_price * 107) \div 100

\* a trend forecast whose raw average change is above 2.5% of the current
\* price per step: five unclipped steps would leave the band
C1_Witness ==
    /\ ForecastAnswered
    /\ last.fc.path = "trend"
    /\ Abs(RawAvgChange(last.recent_prices)) * 40 > last.current_price
    /\ last.fc.forecasts[5].forecast_price # last.current_price

\* C2: every forecast call returns exactly 5 points with minutes 1..5 in order
C2_FivePointsInOrder ==
    ForecastAnswered =>
        /\ Len(last.fc.forecasts) = 5
        /\ \A k \in 1..5 : last.fc.forecasts[k].minute = k

C2_Witness ==
    /\ last.op = "forecast_prices"
    /\ last.fc.path = "model"
    /\ Len(last.fc.forecasts) = 5
    /\ last.fc.forecasts[1].forecast_price # last.current_price

\* C3: with a history of 0, 1 or 2 prices all 5 forecasts equal the current
\* price, with or without a model for the coin
C3_ShortHistoryIsFlat ==
    (ForecastAnswered /\ Len(last.recent_prices) < 3) =>
        /\ Len(last.fc.forecasts) = 5
        /\ \A k \in 1..5 : last.fc.forecasts[k].forecast_price = last.current_price

\* a call with two prices that differ, for a coin that has a fitted model
C3_Witness ==
    /\ last.op = "forecast_prices"
    /\ last.had_model
    /\ models[last.coin_id].has_weights
    /\ Len(last.recent_prices) = 2
    /\ last.recent_prices[1] # last.recent_prices[2]
    /\ Len(last.fc.forecasts) = 5

\* C4: no exception leaves process_and_forecast
C4_NoExceptionEscapes ==
    last.op = "process_and_forecast" => last.status # "raised"

C6_OutOfBandFallsBack ==
    (ForecastPricesAnswered /\ last.fc.predicted
     /\ (last.fc.normalized_prediction * 2 < RatioUnit
         \/ last.fc.normalized_prediction > 2 * RatioUnit)) =>
        /\ last.fc.gate = "band"
        /\ IsTrendFallback

\* a prediction above 2.0 for a history with a trend
C6_Witness ==
    /\ ForecastPricesAnswered
    /\ last.fc.predicted
    /\ last.fc.normalized_prediction > 2 * RatioUnit
    /\ last.fc.path = "trend"
    /\ last.fc.forecasts[1].forecast_price # last.current_price

\* C7: a prediction that puts the next price more than 1% away from the
\* current price makes the call return the trend fallback
C7_UnstableFallsBack ==
    (ForecastPricesAnswered /\ last.fc.predicted
     /\ Abs(MulDiv(last.fc.normalized_prediction, last.current_price, RatioUnit)
            - last.current_price) * 100 > last.current_price) =>
        IsTrendFallback

\* a prediction inside the band, more than 1% away
C7_Witness ==
    /\ ForecastPricesAnswered
    /\ last.fc.predicted
    /\ last.fc.normalized_prediction * 2 >= RatioUnit
    /\ last.fc.normalized_prediction <= 2 * RatioUnit
    /\ last.fc.gate = "too_large"
    /\ last.fc.path = "trend"

\* C8: without a model, or with fewer than 5 prices, forecast_prices
\* answers by the trend fallback at its first return; the regressor
\* predicts only with a model and at least 5 prices
C8_GuardRoutesToFallback ==
    ForecastPricesAnswered =>
        /\ (~last.had_model \/ Len(last.recent_prices) < 5) =>
              /\ last.fc.gate = "guard"
              /\ ~last.fc.predicted
              /\ IsTrendFallback
        /\ last.fc.predicted =>
              /\ last.had_model
              /\ Len(last.recent_prices) >= 5

\* a coin with a fitted model, asked with 4 prices
C8_Witness ==
    /\ last.op = "forecast_prices"
    /\ last.had_model
    /\ models[last.coin_id].has_weights
    /\ scalers[last.coin_id].fitted
    /\ Len(last.recent_prices) = 4
    /\ last.fc.gate = "guard"

\* the scaler transform of the last forecast call throws
TransformFailed ==
    /\ last.had_model
    /\ Len(last.recent_prices) >= 5
    /\ scaler_transform_raises(scalers[last.coin_id],
                               inference_features(last.current_price,
                                                  last.recent_prices))

\* C9: when the scaler transform fails, forecast_prices returns the trend
\* fallback and the regressor is not asked
C9_TransformFailureFallsBack ==
    (ForecastPricesAnswered /\ TransformFailed) =>
        /\ last.fc.gate = "scale_error"
        /\ ~last.fc.predicted
        /\ IsTrendFallback

\* a coin whose scaler was created but never fitted
C9_Witness ==
    /\ last.op = "forecast_prices"
    /\ TransformFailed
    /\ ~scalers[last.coin_id].fitted
    /\ last.fc.path = "trend"

\* C10: a failure of the scaler step in training does not abort training:
\* the regressor is still updated with the batch
C10_TrainingSurvivesScalerFailure ==
    (last.op = "process_and_forecast" /\ last.scaler_failed) =>
        /\ last.status # "raised"
        /\ last.trained
        /\ models[last.coin_id].n_samples > 0

\* the prices of the last forecast, and the price before step k
ForecastPriceAt(k) == last.fc.forecasts[k].forecast_price

PriceBefore(k) == IF k = 1 THEN last.current_price ELSE ForecastPriceAt(k - 1)

\* C11 as claimed: on the trend path step k adds avg_delta x 0.7^k to the
\* price of step k - 1 (then clamps); the example gives 100.07, 100.119,
\* 100.153, 100.178, 100.195
C11_TrendLawAsClaimed ==
    (ForecastAnswered /\ last.fc.path = "trend") =>
        /\ \A k \in 1..5 :
              ForecastPriceAt(k) =
                  np_clip(PriceBefore(k)
                          + (trend_avg_change(last.current_price, last.recent_prices)
                             * Pow(7, k)) \div Pow(10, k),
                          (last.current_price * 93) \div 100,
                          (last.current_price * 107) \div 100)
        /\ (last.current_price = ExamplePrice /\ last.recent_prices = ExampleHistory) =>
              /\ ForecastPriceAt(1) = ExamplePrice + 700
              /\ ForecastPriceAt(2) = ExamplePrice + 1190
              /\ ForecastPriceAt(3) = ExamplePrice + 1533

\* C11 amended: on the trend path step k adds avg_delta x 0.7^(k-1) to the
\* price of step k - 1 (then clamps), so the first step adds the whole
\* average delta; the example gives 100.1, 100.17, 100.219, 100.2533,
\* 100.2773
C11_TrendLaw ==
    (ForecastAnswered /\ last.fc.path = "trend") =>
        /\ \A k \in 1..5 :
              ForecastPriceAt(k) =
                  np_clip(PriceBefore(k)
                          + (trend_avg_change(last.current_price, last.recent_prices)
                             * Pow(7, k - 1)) \div Pow(10, k - 1),
                          (last.current_price * 93) \div 100,
                          (last.current_price * 107) \div 100)
        /\ (last.current_price = ExamplePrice /\ last.recent_prices = ExampleHistory) =>
              /\ ForecastPriceAt(1) = ExamplePrice + 1000
              /\ ForecastPriceAt(2) = ExamplePrice + 1700
              /\ ForecastPriceAt(3) = ExamplePrice + 2190
              /\ ForecastPriceAt(4) = ExamplePrice + 2533
              /\ ForecastPriceAt(5) = ExamplePrice + 2773

\* the example was forecast
C11_Witness ==
    /\ last.op = "simple_trend_forecast"
    /\ last.current_price = ExamplePrice
    /\ last.recent_prices = ExampleHistory
    /\ last.fc.path = "trend"
    /\ ForecastPriceAt(5) > ForecastPriceAt(4)

\* C12: in a pass every listed coin is processed, whatever happened to the
\* coins before it: after i - 1 iterations there are i - 1 outcomes, and a
\* pass that sleeps has an outcome for each of its coins
C12_FailureIsolated ==
    /\ Len(loop.outcomes) = loop.i - 1
    /\ loop.pc = "sleep" => Len(loop.outcomes) = Len(loop.coins)

\* a pass whose first coin raised and whose second coin got a forecast
C12_Witness ==
    /\ loop.pc = "sleep"
    /\ Len(loop.coins) = 2
    /\ loop.outcomes = <<"raised", "ok">>
    /\ last.coin_id = loop.coins[2]
    /\ Len(last.fc.forecasts) = 5

\* C13: a pass trains before it forecasts, and its forecast is the one
\* forecast_prices makes from the regressor and the scaler as the training
\* step of the same pass left them
C13_ForecastSeesTraining ==
    (last.op = "process_and_forecast" /\ last.status = "ok") =>
        /\ last.trained
        /\ models[last.coin_id].n_samples > 0
        /\ scalers[last.coin_id].fitted
        /\ last.fc = forecast_prices(models, scalers, last.coin_id,
                                     last.current_price, last.recent_prices)

\* the first call of all: no model existed before its training step, and
\* its forecast asked the regressor
C13_Witness ==
    /\ calls = 1
    /\ last.op = "process_and_forecast"
    /\ last.status = "ok"
    /\ last.fc.predicted
    /\ last.fc.path = "model"

\* C14: once a coin has a regressor, a scaler and a buffer, no step removes
\* or resets them: the entries stay, and the regressor's sample count, the
\* scaler's sample count and the buffer's length never go down
C14_EntriesPersist ==
    [][\A c \in DOMAIN models :
          /\ c \in DOMAIN models'
          /\ c \in DOMAIN scalers'
          /\ c \in DOMAIN price_history'
          /\ models'[c].n_samples >= models[c].n_samples
          /\ scalers'[c].n_samples_seen >= scalers[c].n_samples_seen
          /\ Len(price_history'[c]) >= Len(price_history[c])]_vars

\* the entry of coin c in the dictionary d is the same after the step
SameEntry(d, dnext, c) ==
    /\ (c \in DOMAIN d) <=> (c \in DOMAIN dnext)
    /\ (c \in DOMAIN d) => dnext[c] = d[c]

\* C15: a step that processes coin A leaves the regressor, the scaler and
\* the buffer of every other coin B as they were
C15_OtherCoinsUntouched ==
    [][\A B \in Coins :
          (last'.op = "process_and_forecast" /\ B # last'.coin_id) =>
              /\ SameEntry(models, models', B)
              /\ SameEntry(scalers, scalers', B)
              /\ SameEntry(price_history, price_history', B)]_vars

\* a coin was trained and forecast while the other coin has a trained
\* regressor, a fitted scaler and a filled buffer
C15_Witness ==
    /\ last.op = "process_and_forecast"
    /\ last.status = "ok"
    /\ \E B \in Coins \ {last.coin_id} :
          /\ B \in DOMAIN models
          /\ models[B].has_weights
          /\ scalers[B].fitted
          /\ price_history[B] # <<>>

\* both calls that ran side by side have returned
AllDone ==
    /\ threads.phase = "parallel"
    /\ \A c \in Coins : threads.th[c].pc = "done"

\* the state and the results of the two calls made one after the other, in
\* the given order, from the state in which they were started
SeqRuns(order) ==
    UNION { { [models |-> r2.models, scalers |-> r2.scalers,
               price_history |-> r2.price_history,
               results |-> [c \in Coins |-> IF c = order[1] THEN r1.obs ELSE r2.obs]] :
              r2 \in {process_and_forecast(r1.models, r1.scalers, r1.price_history,
                                           r1.migrated, order[2],
                                           threads.th[order[2]].read,
                                           threads.th[order[2]].w)} } :
            r1 \in {process_and_forecast(threads.start.models, threads.start.scalers,
                                         threads.start.price_history,
                                         threads.start.migrated, order[1],
                                         threads.th[order[1]].read,
                                         threads.th[order[1]].w)} }

\* C16: when the calls of two distinct coins interleave, every coin ends
\* with the state and the result that the two calls give when made one
\* after the other
C16_InterleavingAsSequential ==
    AllDone =>
        \E order \in { <<"bitcoin", "ethereum">>, <<"ethereum", "bitcoin">> } :
            \E s \in SeqRuns(order) :
                /\ models = s.models
                /\ scalers = s.scalers
                /\ price_history = s.price_history
                /\ \A c \in Coins : threads.th[c].result = s.results[c]

\* the entry of coin c in the dictionary d, or nothing
EntryOf(d, c) == IF c \in DOMAIN d THEN <<d[c]>> ELSE <<>>

AllRowsIdentical(X) == \A r \in 1..Len(as_rows(X)) : as_rows(X)[r] = as_rows(X)[1]

\* C18: partial_fit on a batch of identical rows does not raise and leaves
\* one finite weight per feature
C18_SingularBatchFits ==
    (regressor.out.op = "partial_fit" /\ AllRowsIdentical(regressor.out.X)) =>
        /\ ~regressor.out.raised
        /\ regressor.obj.has_weights
        /\ Len(regressor.obj.weights) = Len(as_rows(regressor.out.X)[1])
        /\ \A j \in 1..Len(regressor.obj.weights) : regressor.obj.weights[j] \in Int

\* several identical rows, a singular matrix (no regularization): the
\* pseudo-inverse gave the weights
C18_Witness ==
    /\ regressor.out.op = "partial_fit"
    /\ AllRowsIdentical(regressor.out.X)
    /\ Len(as_rows(regressor.out.X)) >= 2
    /\ det2(AddDiag(regressor.obj.sum_xx, regressor.obj.regularization)) = 0
    /\ regressor.out.used_pinv
    /\ regressor.obj.weights # <<0, 0>>

\* C19: predict returns one zero per input row (one for a single vector)
\* before the first fit, and X.w + bias per row after it
C19_PredictShape ==
    regressor.out.op = "predict" =>
        /\ Len(regressor.out.value) = Len(as_rows(regressor.out.X))
        /\ \A r \in 1..Len(as_rows(regressor.out.X)) :
              regressor.out.value[r] =
                  IF regressor.obj.has_weights
                  THEN SumSeq(AsSeq([j \in 1..2 |->
                           as_rows(regressor.out.X)[r][j] * regressor.obj.weights[j]]))
                       \div PScale + regressor.obj.bias
                  ELSE 0

\* the buffer of coin c in the dictionary ph, empty while c has none
Buffer(ph, c) == IF c \in DOMAIN ph THEN ph[c] ELSE <<>>

\* C20: a buffer never holds more than 100 prices, and it is always the
\* most recent (up to 100) prices appended for its coin, in order: a pass
\* that appends prices leaves the last 100 of the old buffer followed by
\* them, and no other step changes a buffer
C20_BufferIsRecentPrices ==
    [][\A c \in Coins :
          /\ Len(Buffer(price_history', c)) <= price_history_maxlen
          /\ Buffer(price_history', c) =
                 IF /\ last'.op = "process_and_forecast"
                    /\ last'.coin_id = c
                    /\ last'.status = "ok"
                 THEN LastN(Buffer(price_history, c) \o last'.recent_prices,
                            price_history_maxlen)
                 ELSE Buffer(price_history, c)]_vars

\* base_trend of the last forecast, in 1/PpmUnit: the relative move of the
\* prediction after its clip to +/- 2% of the current price
BaseTrendOfLast ==
    ((clipped_next_price(last.current_price,
                         MulDiv(last.fc.normalized_prediction, last.current_price,
                                RatioUnit))
      - last.current_price) * PpmUnit) \div last.current_price

\* C21: on the model path the forecast of step k is the price of step k - 1
\* (the current price for k = 1) times 1 + clip(base_trend x 0.3^k, +/-0.5%),
\* clamped to [0.93, 1.07] x current price before the next step uses it
C21_ModelLaw ==
    (ForecastPricesAnswered /\ last.fc.path = "model") =>
        \A k \in 1..5 :
           ForecastPriceAt(k) =
               np_clip(PriceBefore(k)
                       + (PriceBefore(k)
                          * np_clip((BaseTrendOfLast * Pow(3, k)) \div Pow(10, k),
                                    0 - 5000, 5000)) \div PpmUnit,
                       (last.current_price * 93) \div 100,
                       (last.current_price * 107) \div 100)

\* a model-path forecast with a trend: the prices move at every one of the
\* first steps
C21_Witness ==
    /\ ForecastPricesAnswered
    /\ last.fc.path = "model"
    /\ BaseTrendOfLast # 0
    /\ ForecastPriceAt(1) # last.current_price
    /\ ForecastPriceAt(2) # ForecastPriceAt(1)
    /\ ForecastPriceAt(3) # ForecastPriceAt(2)

\* C22: the training feature vector of index i uses only prices before
\* index i: its change-ratio entry is (price[i-1] - price[i-2]) / reference,
\* and another price[i] gives another target but the same feature vector
C22_FeaturesIgnoreTarget ==
    (prepared.called /\ ~prepared.none) =>
        \A r \in 1..Len(prepared.features) :
           /\ prepared.features[r][sequence_length + 2] =
                  Normalized(Prices(prepared.df)[sequence_length + r - 1]
                             - Prices(prepared.df)[sequence_length + r - 2],
                             Prices(prepared.df)[sequence_length + r - 1], 0)
           /\ \A v \in TailPrices :
                  /\ prepare_features(WithPrice(prepared.df, sequence_length + r, v)).features[r]
                        = prepared.features[r]
                  /\ prepare_features(WithPrice(prepared.df, sequence_length + r, v)).targets[r]
                        = Normalized(v, Prices(prepared.df)[sequence_length + r - 1], RatioUnit)

\* the window of training pair r of the last prepare_features call, and its
\* last price (the reference price of the pair)
WindowOf(r) == SubSeq(Prices(prepared.df), r, sequence_length + r - 1)

ReferenceOf(r) == Prices(prepared.df)[sequence_length + r - 1]

\* the inference vector forecast_prices builds from the window of pair r
InferenceOf(r) == inference_features(ReferenceOf(r), WindowOf(r))[1]

\* C23: the inference feature vector built from a window has the layout of
\* the training feature vector built from the same window: sequence_length
\* + 5 entries, the normalized window, the bias 1.0, then (after the change
\* ratio) the mean ratio, the std ratio and the trend ratio at the same
\* positions
C23_SameLayout ==
    (prepared.called /\ ~prepared.none) =>
        \A r \in 1..Len(prepared.features) :
           ReferenceOf(r) > 0 =>
              /\ Len(InferenceOf(r)) = sequence_length + 5
              /\ Len(prepared.features[r]) = sequence_length + 5
              /\ \A j \in 1..(sequence_length + 1) :
                    InferenceOf(r)[j] = prepared.features[r][j]
              /\ \A j \in (sequence_length + 3)..(sequence_length + 5) :
                    InferenceOf(r)[j] = prepared.features[r][j]

\* C24: a forecast_prices or simple_trend_forecast call (with the predict
\* call inside it) leaves the regressor and the scaler of every coin as
\* they were: weights, bias, sample counts and scaler statistics
C24_ForecastLeavesState ==
    [][(calls' = calls + 1 /\ last'.op \in {"forecast_prices", "simple_trend_forecast"}) =>
          (models' = models /\ scalers' = scalers)]_vars

\* a forecast that consulted a trained regressor and its scaler
C24_Witness ==
    /\ last.op = "forecast_prices"
    /\ last.fc.path = "model"
    /\ last.fc.predicted
    /\ models[last.coin_id].n_samples > 0
    /\ scalers[last.coin_id].n_samples_seen > 0

\* C25: a pass processes at most 50 coins, one after the other in the order
\* of the list, and each listed coin once: the coins processed so far are a
\* prefix of the list without repetition, and a pass that sleeps has
\* processed the first 50 coins of its list, or all of them
C25_OncePerPass ==
    /\ Len(loop.done) <= 50
    /\ loop.done = SubSeq(loop.listed, 1, Len(loop.done))
    /\ \A a \in 1..Len(loop.done) : \A b \in 1..Len(loop.done) :
          a # b => loop.done[a] # loop.done[b]
    /\ loop.pc = "for" => Len(loop.done) = loop.i - 1
    /\ loop.pc = "sleep" =>
          Len(loop.done) = IF Len(loop.listed) < 50 THEN Len(loop.listed) ELSE 50

\* a pass over a list of 51 coins went to sleep after 50 of them
C25_Witness ==
    /\ loop.pc = "sleep"
    /\ Len(loop.listed) = 51
    /\ Len(loop.done) = 50
    /\ loop.done[50] = loop.listed[50]

\* C26: for a positive current price every forecast of the model path is
\* less than 1% away from the current price and every forecast of the
\* fallback paths less than 2%, so each lies strictly inside the +/-7%
\* band and the clamp to the band altered none of them
C26_ClampNeverBites ==
    (ForecastAnswered /\ last.current_price > 0) =>
        \A k \in 1..5 :
           /\ last.fc.path = "model" =>
                 Abs(ForecastPriceAt(k) - last.current_price) * 100 < last.current_price
           /\ Abs(ForecastPriceAt(k) - last.current_price) * 100 < 2 * last.current_price
           /\ ForecastPriceAt(k) * 100 > last.current_price * 93
           /\ ForecastPriceAt(k) * 100 < last.current_price * 107

\* a trend forecast whose average change was cut to 0.5% of the current
\* price: it ends more than 1% away from the current price
C26_Witness ==
    /\ ForecastAnswered
    /\ last.current_price > 0
    /\ last.fc.path = "trend"
    /\ Abs(RawAvgChange(last.recent_prices)) * 1000 > 5 * last.current_price
    /\ Abs(ForecastPriceAt(5) - last.current_price) * 100 > last.current_price

\* the step loses trained state of coin c: an entry disappears, a count or
\* the buffer goes down, or an iteration of the pass that trained c leaves
\* its sample count or its buffer no larger than before (the buffers stay
\* below their capacity)
LosesState(c) ==
    /\ c \in DOMAIN models
    /\ \/ c \notin DOMAIN models'
       \/ c \notin DOMAIN scalers'
       \/ models'[c].n_samples < models[c].n_samples
       \/ scalers'[c].n_samples_seen < scalers[c].n_samples_seen
       \/ Len(Buffer(price_history', c)) < Len(Buffer(price_history, c))
       \/ /\ Len(loop'.done) = Len(loop.done) + 1
          /\ last'.coin_id = c
          /\ last'.trained
          /\ \/ models'[c].n_samples <= models[c].n_samples
             \/ Len(Buffer(price_history', c)) <= Len(Buffer(price_history, c))

\* C27: the migration step discards at most once in the life of a service:
\* a step that loses state of a coin is the one that sets the migration
\* flag, the flag stays set, and once it is set no step loses state
C27_MigratesOnce ==
    [][/\ migrated => migrated'
       /\ (\E c \in Coins : LosesState(c)) => (~migrated /\ migrated')]_vars

\* after the discard a coin that had a model was trained again and kept
\* what it had learned before
C27_Witness ==
    /\ migrated
    /\ last.op = "process_and_forecast"
    /\ last.trained
    /\ models[last.coin_id].n_samples >= 2
    /\ Len(Buffer(price_history, last.coin_id)) > sequence_length + 1

\* C28: after every operation the coins with a regressor are the coins with
\* a scaler, and each of them has a price buffer
C28_RegistriesAgree ==
    /\ DOMAIN models = DOMAIN scalers
    /\ DOMAIN models \subseteq DOMAIN price_history

\* a call discarded the entries of its coin and then returned None: the
\* coin has a buffer, and neither a regressor nor a scaler
C28_Witness ==
    /\ migrated
    /\ last.op = "process_and_forecast"
    /\ last.status = "none"
    /\ last.coin_id \in DOMAIN price_history
    /\ last.coin_id \notin DOMAIN models
    /\ last.coin_id \notin DOMAIN scalers

\* C29: the service loop does not stop by itself: whatever a pass does (it
\* completes, it finds no coins, an exception leaves it), the loop sleeps
\* and begins the next pass, so pass number n is followed by pass number
\* n + 1 (for the passes the model runs)
C29_LoopGoesOn ==
    \A n \in 0..(MaxPasses - 1) : (loop.passes = n) ~> (loop.passes = n + 1)

\* the loop is back at the top of the while after a pass that an exception
\* left
C29_Witness ==
    /\ loop.pc = "start"
    /\ loop.passes >= 1
    /\ Len(loop.outcomes) >= 2
    /\ loop.outcomes[Len(loop.outcomes)] = "exception"

\* the elements of a sequence
Range(s) == { s[i] : i \in 1..Len(s) }

\* the lines of the file after the save that are not its new rows
OlderLines == SubSeq(csv'.rows, 1, Len(csv'.rows) - Len(csv'.saved.rows))

====
